---------------------------- MODULE Spec2Model ----------------------------
(***************************************************************************)
(* A model of app.py: the retrying model call (safe_llm_call), the error   *)
(* classifier (handle_llm_error), the JSON extractor (parse_json_response),*)
(* the two request functions (analyze_resume, generate_cover_letter) and   *)
(* the part of main() that runs them and stores their results in the       *)
(* session.                                                                *)
(*                                                                         *)
(* Text is a sequence of one-character strings.  Indices are 1-based; an   *)
(* index of 0 stands for Python's -1 ("not found").                        *)
(***************************************************************************)
EXTENDS Integers, Sequences, FiniteSets

VARIABLES
    ready,             \* the session inputs that are non-empty
    pc,                \* "idle" | "calling" | "done": position of the click handler
    kind,              \* "analysis" | "cover": the request being served
    attempt_number,    \* attempts of safe_llm_call made for this request
    last_error,        \* message of the most recent failed attempt
    slept,             \* the waits of this safe_llm_call, in order
    call,              \* "pending" | "returned" | "raised": outcome of safe_llm_call
    caught,            \* message of the exception that reached the caller's except
    response,          \* the completion text
    ret,               \* what analyze_resume / generate_cover_letter returned
    st_error,          \* the st.error message of this request ("" if none)
    analysis_results,  \* st.session_state.analysis_results
    cover_letter,      \* st.session_state.cover_letter
    lead,              \* prose before the payload   (extractor inputs)
    fence,             \* whether the payload is fenced
    payload,           \* the text embedded in the completion
    trail,             \* prose after the payload
    extracted          \* outcome of parse_json_response(response)

vars == <<ready, pc, kind, attempt_number, last_error, slept, call, caught, response,
          ret, st_error, analysis_results, cover_letter,
          lead, fence, payload, trail, extracted>>

sessionVars == <<ready, pc, kind, attempt_number, last_error, slept, call, caught,
                 ret, st_error, analysis_results, cover_letter>>

extractVars == <<lead, fence, payload, trail, extracted>>

---------------------------------------------------------------------------
(* Text helpers: str.strip, str.startswith, str.endswith, str.find,        *)
(* str.lower and the substring test (a in b).                              *)

Whitespace == {" ", "\n"}

Digits == {"0", "1", "2", "3", "4", "5", "6", "7", "8", "9"}

UpperCase == <<"A", "B", "C", "D", "E", "F", "G", "H", "I", "J", "K", "L", "M",
               "N", "O", "P", "Q", "R", "S", "T", "U", "V", "W", "X", "Y", "Z">>

LowerCase == <<"a", "b", "c", "d", "e", "f", "g", "h", "i", "j", "k", "l", "m",
               "n", "o", "p", "q", "r", "s", "t", "u", "v", "w", "x", "y", "z">>

strip(s) ==
    LET keep == {i \in 1..Len(s) : s[i] \notin Whitespace}
    IN  IF keep = {} THEN <<>>
        ELSE SubSeq(s, CHOOSE i \in keep : \A j \in keep : i <= j,
                       CHOOSE i \in keep : \A j \in keep : i >= j)

startswith(s, p) == Len(s) >= Len(p) /\ SubSeq(s, 1, Len(p)) = p

endswith(s, p) == Len(s) >= Len(p) /\ SubSeq(s, Len(s) - Len(p) + 1, Len(s)) = p

find(s, c) ==
    LET hits == {i \in 1..Len(s) : s[i] = c}
    IN  IF hits = {} THEN 0 ELSE CHOOSE i \in hits : \A j \in hits : i <= j

ToLower(c) ==
    IF \E i \in 1..26 : UpperCase[i] = c
    THEN LowerCase[CHOOSE i \in 1..26 : UpperCase[i] = c]
    ELSE c

lower(s) == [i \in 1..Len(s) |-> ToLower(s[i])]

IsSubstring(p, s) ==
    \E i \in 0..(Len(s) - Len(p)) : SubSeq(s, i + 1, i + Len(p)) = p

---------------------------------------------------------------------------
(* json.loads.  A Python value is a record                                 *)
(*   kind    : "object" | "array" | "string" | "number" | "bool" | "None"  *)
(*             | "error" (the call raised)                                 *)
(*   members : the keys of an object, the elements of an array (each as    *)
(*             its text), {} otherwise                                     *)
(*   text    : the value written without whitespace between tokens         *)
(* The texts of the model hold no backslash, so string escapes are not     *)
(* modelled.                                                               *)

Failed == [ok |-> FALSE, pos |-> 0, kind |-> "error", members |-> {}, text |-> <<>>]

Parsed(p, k, m, t) == [ok |-> TRUE, pos |-> p, kind |-> k, members |-> m, text |-> t]

SkipWs(s, i) ==
    CHOOSE j \in i..(Len(s) + 1) :
        /\ \A k \in i..(j - 1) : s[k] \in Whitespace
        /\ j = Len(s) + 1 \/ s[j] \notin Whitespace

\* a string starting at the quote s[i]: up to the next quote, no control character inside
ParseString(s, i) ==
    LET closing == {j \in (i + 1)..Len(s) : s[j] = "\""}
    IN  IF closing = {} THEN Failed
        ELSE LET j == CHOOSE x \in closing : \A y \in closing : x <= y
             IN  IF \E k \in (i + 1)..(j - 1) : s[k] = "\n" THEN Failed
                 ELSE Parsed(j + 1, "string", {}, SubSeq(s, i, j))

\* an integer starting at the digit s[i]: "0", or a run of digits not starting with 0
ParseNumber(s, i) ==
    LET stop == CHOOSE j \in (i + 1)..(Len(s) + 1) :
                    /\ \A k \in i..(j - 1) : s[k] \in Digits
                    /\ j = Len(s) + 1 \/ s[j] \notin Digits
        j == IF s[i] = "0" THEN i + 1 ELSE stop
    IN  Parsed(j, "number", {}, SubSeq(s, i, j - 1))

ParseLiteral(s, i) ==
    LET at(w) == i + Len(w) - 1 <= Len(s) /\ SubSeq(s, i, i + Len(w) - 1) = w
    IN  IF at(<<"n", "u", "l", "l">>)
        THEN Parsed(i + 4, "None", {}, <<"n", "u", "l", "l">>)
        ELSE IF at(<<"t", "r", "u", "e">>)
        THEN Parsed(i + 4, "bool", {}, <<"t", "r", "u", "e">>)
        ELSE IF at(<<"f", "a", "l", "s", "e">>)
        THEN Parsed(i + 5, "bool", {}, <<"f", "a", "l", "s", "e">>)
        ELSE Failed

RECURSIVE ParseValue(_, _), ParseMembers(_, _, _, _), ParseElements(_, _, _, _)

\* the members of an object from the key at s[i]; keys and acc are what was read so far
ParseMembers(s, i, keys, acc) ==
    IF i > Len(s) \/ s[i] # "\"" THEN Failed
    ELSE
    LET k == ParseString(s, i) IN
    IF ~k.ok THEN Failed
    ELSE
    LET c == SkipWs(s, k.pos) IN
    IF c > Len(s) \/ s[c] # ":" THEN Failed
    ELSE
    LET v == ParseValue(s, SkipWs(s, c + 1)) IN
    IF ~v.ok THEN Failed
    ELSE
    LET d     == SkipWs(s, v.pos)
        keys2 == keys \cup {SubSeq(k.text, 2, Len(k.text) - 1)}
        acc2  == acc \o k.text \o <<":">> \o v.text
    IN  IF d > Len(s) THEN Failed
        ELSE IF s[d] = "}" THEN Parsed(d + 1, "object", keys2, acc2 \o <<"}">>)
        ELSE IF s[d] = "," THEN ParseMembers(s, SkipWs(s, d + 1), keys2, acc2 \o <<",">>)
        ELSE Failed

\* the elements of an array from the value at s[i]
ParseElements(s, i, elems, acc) ==
    LET v == ParseValue(s, i) IN
    IF ~v.ok THEN Failed
    ELSE
    LET d      == SkipWs(s, v.pos)
        elems2 == elems \cup {v.text}
        acc2   == acc \o v.text
    IN  IF d > Len(s) THEN Failed
        ELSE IF s[d] = "]" THEN Parsed(d + 1, "array", elems2, acc2 \o <<"]">>)
        ELSE IF s[d] = "," THEN ParseElements(s, SkipWs(s, d + 1), elems2, acc2 \o <<",">>)
        ELSE Failed

\* the value starting at s[i]
ParseValue(s, i) ==
    IF i > Len(s) THEN Failed
    ELSE IF s[i] = "\"" THEN ParseString(s, i)
    ELSE IF s[i] = "{" THEN
        LET j == SkipWs(s, i + 1)
        IN  IF j <= Len(s) /\ s[j] = "}" THEN Parsed(j + 1, "object", {}, <<"{", "}">>)
            ELSE ParseMembers(s, j, {}, <<"{">>)
    ELSE IF s[i] = "[" THEN
        LET j == SkipWs(s, i + 1)
        IN  IF j <= Len(s) /\ s[j] = "]" THEN Parsed(j + 1, "array", {}, <<"[", "]">>)
            ELSE ParseElements(s, j, {}, <<"[">>)
    ELSE IF s[i] \in Digits THEN ParseNumber(s, i)
    ELSE ParseLiteral(s, i)

PyValue(k, m, t) == [kind |-> k, members |-> m, text |-> t]

JsonError == PyValue("error", {}, <<>>)

\* v is the value read at the first non-blank character of s: it is the result if
\* only whitespace follows it
Decoded(s, v) ==
    IF v.ok /\ SkipWs(s, v.pos) = Len(s) + 1
    THEN PyValue(v.kind, v.members, v.text)
    ELSE JsonError

\* json.loads(s): one value, whitespace around it, nothing else
json_loads(s) == Decoded(s, ParseValue(s, SkipWs(s, 1)))

---------------------------------------------------------------------------
(* parse_json_response                                                     *)

\* the backquote character (a TLA+ string literal cannot hold it)
Backquote == "^"

FenceJson == <<Backquote, Backquote, Backquote, "j", "s", "o", "n">>

FenceBare == <<Backquote, Backquote, Backquote>>

\* lines 82-90: strip, then drop a leading json fence, a leading bare fence and a
\* trailing bare fence
StripFences(raw) ==
    LET a == strip(raw)
        b == IF startswith(a, FenceJson) THEN SubSeq(a, 8, Len(a)) ELSE a
        c == IF startswith(b, FenceBare) THEN SubSeq(b, 4, Len(b)) ELSE b
    IN  IF endswith(c, FenceBare) THEN SubSeq(c, 1, Len(c) - 3) ELSE c

RECURSIVE BraceScan(_, _, _)

\* lines 96-105: the index of the "}" at which the count returns to 0, or 0 if none
BraceScan(s, i, brace_count) ==
    IF i > Len(s) THEN 0
    ELSE IF s[i] = "{" THEN BraceScan(s, i + 1, brace_count + 1)
    ELSE IF s[i] = "}" THEN
        IF brace_count - 1 = 0 THEN i ELSE BraceScan(s, i + 1, brace_count - 1)
    ELSE BraceScan(s, i + 1, brace_count)

start_idx(clean) == find(clean, "{")

\* 0 when there is no "{" or no matching "}"
end_idx(clean) ==
    IF start_idx(clean) = 0 THEN 0 ELSE BraceScan(clean, start_idx(clean), 0)

\* lines 93-110: the text handed to json.loads
JsonSpan(clean) ==
    IF start_idx(clean) # 0 /\ end_idx(clean) # 0
    THEN strip(SubSeq(clean, start_idx(clean), end_idx(clean)))
    ELSE strip(clean)

\* the value returned, or JsonError when json.loads raises
parse_json_response(raw) == json_loads(JsonSpan(StripFences(raw)))

---------------------------------------------------------------------------
(* The completions the extractor is run on: a payload, optionally inside a *)
(* fenced block, between leading and trailing prose.                       *)

MaxProse == 2

ProseChars == {"{", "}", "a", " "}

Prose == UNION {[1..n -> ProseChars] : n \in 0..MaxProse}

Fences == {"none", "json", "bare"}

Payloads == {
    <<"{", "}">>,
    <<"{", "\"", "a", "\"", ":", "1", "}">>,
    <<"{", "\"", "a", "\"", ":", "{", "\"", "b", "\"", ":", "1", "}", "}">>,
    <<"{", "\"", "a", "\"", ":", " ", "{", "\"", "b", "\"", ":", " ", "1", "}">>,
    <<"{", "\"", "t", "e", "x", "t", "\"", ":", " ", "\"", "a", " ", "{", " ", "b",
      " ", "}", " ", "c", "\"", "}">>,
    <<"{", "\"", "a", "\"", ":", "\"", "}", "\"", "}">>,
    <<"{", "\"", "a", "\"", ":", "\"", "{", "\"", "}">>,
    <<"\"", "{", "\"">>,
    <<"[", "1", "]">>,
    <<"n", "u", "l", "l">>,
    <<"n", "o", " ", "j", "s", "o", "n">>,
    <<>> }

\* the completion text: prose, fence opener and newline, payload, newline and fence, prose
Completion(l, f, p, t) ==
    LET open  == IF f = "json" THEN FenceJson \o <<"\n">>
                 ELSE IF f = "bare" THEN FenceBare \o <<"\n">>
                 ELSE <<>>
        close == IF f = "none" THEN <<>> ELSE <<"\n">> \o FenceBare
    IN  l \o open \o p \o close \o t

Pending == [state |-> "pending", span |-> <<>>, value |-> JsonError]

\* the call of parse_json_response(raw) that evaluated to v: what it returned, or
\* that it raised, and the text it handed to json.loads
OutcomeOf(raw, v) ==
    [state |-> IF v.kind = "error" THEN "raised" ELSE "returned",
     span  |-> JsonSpan(StripFences(raw)),
     value |-> v]

Outcome(raw) == OutcomeOf(raw, parse_json_response(raw))

---------------------------------------------------------------------------
(* safe_llm_call: tenacity's retry around llm(prompt)                      *)

StopAfterAttempt == 3

WaitMultiplier == 1

WaitMin == 4

WaitMax == 10

Max(a, b) == IF a >= b THEN a ELSE b

Min(a, b) == IF a <= b THEN a ELSE b

\* stop_after_attempt(3): no attempt follows attempt n
stop(n) == n >= StopAfterAttempt

\* a variant without the floor
wait_no_floor(n) == Min(WaitMultiplier * 2 ^ (n - 1), WaitMax)

\* wait_exponential(multiplier=1, min=4, max=10) after failed attempt n
wait(n) == Max(Max(0, WaitMin), Min(WaitMultiplier * 2 ^ (n - 1), WaitMax))

RateLimit == <<"r", "a", "t", "e", " ", "l", "i", "m", "i", "t">>

InvalidPayload == <<"i", "n", "v", "a", "l", "i", "d", " ", "p", "a", "y", "l", "o", "a", "d">>

\* a variant that retries rate-limit errors only
retry_on_rate_limit_only(e) == IsSubstring(RateLimit, lower(e))

\* lines 59-64 under @retry (no retry= argument): every exception of llm(prompt) is
\* raised again by both branches, and tenacity retries on any exception
retry_on(e) == IF IsSubstring(RateLimit, lower(e)) THEN TRUE ELSE TRUE

\* the messages llm(prompt) may fail with
Errors == {
    <<"R", "a", "t", "e", " ", "L", "i", "m", "i", "t">>,
    <<"r", "a", "t", "e", " ", "l", "i", "m", "i", "t">>,
    <<"I", "n", "v", "a", "l", "i", "d", " ", "p", "a", "y", "l", "o", "a", "d">>,
    <<"i", "n", "v", "a", "l", "i", "d", " ", "p", "a", "y", "l", "o", "a", "d", ",",
      " ", "r", "a", "t", "e", " ", "l", "i", "m", "i", "t">>,
    <<"t", "i", "m", "e", "o", "u", "t">> }

---------------------------------------------------------------------------
(* handle_llm_error                                                        *)

MsgBusy == "Our systems are busy (rate limit reached). Please wait 1 minute and try again."

MsgModelIssue == "Temporary model issue. Try a different job title or description."

MsgUnavailable == "Service unavailable. Please try again later."

\* a variant that compares without lower-casing
handle_llm_error_case_sensitive(e) ==
    IF IsSubstring(RateLimit, e) THEN MsgBusy
    ELSE IF IsSubstring(InvalidPayload, e) THEN MsgModelIssue
    ELSE MsgUnavailable

handle_llm_error(e) ==
    LET error_msg == e
    IN  IF IsSubstring(RateLimit, lower(error_msg)) THEN MsgBusy
        ELSE IF IsSubstring(InvalidPayload, lower(error_msg)) THEN MsgModelIssue
        ELSE MsgUnavailable

---------------------------------------------------------------------------
(* analyze_resume and generate_cover_letter.  What they return is a Python *)
(* value with two more fields:                                             *)
(*   via          : "parsed" (the parsed value, lines 234 / 271),          *)
(*                  "fallback" (the dict built at lines 242 / 279),        *)
(*                  "none" (None, or the slot's initial value)             *)
(*   raw_response : the raw completion a fallback carries                  *)

Result(via, v, raw) ==
    [via |-> via, kind |-> v.kind, members |-> v.members, text |-> v.text,
     raw_response |-> raw]

None == Result("none", PyValue("None", {}, <<>>), <<>>)

EmptyStr == Result("none", PyValue("string", {}, <<"\"", "\"">>), <<>>)

KeyAnalysis == <<"a", "n", "a", "l", "y", "s", "i", "s">>

KeyCoverLetter == <<"c", "o", "v", "e", "r", "_", "l", "e", "t", "t", "e", "r">>

KeyCompany == <<"c", "o", "m", "p", "a", "n", "y">>

MsgParseFailed == "Failed to parse AI response as JSON"

MsgMissingAnalysis == "Invalid response format from AI. Missing analysis field."

MsgMissingFields == "Invalid response format from AI. Missing required fields."

\* Python's (key in v) for a str key: "True", "False", or "TypeError" when v is no container
contains(key, v) ==
    IF v.kind = "object" THEN (IF key \in v.members THEN "True" ELSE "False")
    ELSE IF v.kind = "array"
    THEN (IF (<<"\"">> \o key \o <<"\"">>) \in v.members THEN "True" ELSE "False")
    ELSE IF v.kind = "string"
    THEN (IF IsSubstring(key, SubSeq(v.text, 2, Len(v.text) - 1)) THEN "True" ELSE "False")
    ELSE "TypeError"

\* Python's bool(v)
truthy(v) ==
    IF v.kind \in {"object", "array"} THEN v.members # {}
    ELSE IF v.kind = "string" THEN Len(v.text) > 2
    ELSE IF v.kind = "number" THEN v.text # <<"0">>
    ELSE IF v.kind = "bool" THEN v.text = <<"t", "r", "u", "e">>
    ELSE FALSE

Returned(r, msg) == [ret |-> r, st_error |-> msg]

\* lines 242-248: {"analysis": {..., "raw_response": response}}
AnalysisFallback(resp) == Result("fallback", PyValue("object", {KeyAnalysis}, <<>>), resp)

\* lines 279-282: {"cover_letter": response, "company": "Target Company"}
CoverLetterFallback(resp) ==
    Result("fallback", PyValue("object", {KeyCoverLetter, KeyCompany}, <<>>), resp)

\* a variant that degrades when the analysis field is missing
analysis_of_degrading(resp, parsed_response) ==
    IF parsed_response.kind # "error" /\ contains(KeyAnalysis, parsed_response) = "True"
    THEN Returned(Result("parsed", parsed_response, <<>>), "")
    ELSE Returned(AnalysisFallback(resp), MsgParseFailed)

\* lines 229-248: the inner try of analyze_resume, parsed_response being what
\* parse_json_response(response) returned (JsonError: it raised)
analysis_of(resp, parsed_response) ==
    IF parsed_response.kind = "error" \/ contains(KeyAnalysis, parsed_response) = "TypeError"
    THEN Returned(AnalysisFallback(resp), MsgParseFailed)
    ELSE IF contains(KeyAnalysis, parsed_response) = "True"
    THEN Returned(Result("parsed", parsed_response, <<>>), "")
    ELSE Returned(None, MsgMissingAnalysis)

\* lines 219-253; c is how safe_llm_call ended, resp what it returned, e what it raised
analyze_resume(c, resp, e) ==
    IF c = "raised" THEN Returned(None, handle_llm_error(e))
    ELSE IF resp = <<>> THEN Returned(None, "")
    ELSE analysis_of(resp, parse_json_response(resp))

\* lines 266-282: the inner try of generate_cover_letter
cover_letter_of(resp, parsed_response) ==
    IF parsed_response.kind = "error"
       \/ contains(KeyCoverLetter, parsed_response) = "TypeError"
    THEN Returned(CoverLetterFallback(resp), MsgParseFailed)
    ELSE IF /\ contains(KeyCoverLetter, parsed_response) = "True"
            /\ contains(KeyCompany, parsed_response) = "True"
    THEN Returned(Result("parsed", parsed_response, <<>>), "")
    ELSE Returned(None, MsgMissingFields)

\* lines 255-287
generate_cover_letter(c, resp, e) ==
    IF c = "raised" THEN Returned(None, handle_llm_error(e))
    ELSE IF resp = <<>> THEN Returned(None, "")
    ELSE cover_letter_of(resp, parse_json_response(resp))

\* the request function of the button k
request(k, c, resp, e) ==
    IF k = "analysis" THEN analyze_resume(c, resp, e) ELSE generate_cover_letter(c, resp, e)

\* a variant that stores whatever was returned
store_always(slot, r) == r

\* lines 344-345 and 425-426: the slot after a request that returned r
store(slot, r) == IF truthy(r) THEN r ELSE slot

---------------------------------------------------------------------------
(* The session: main() driving the two requests                            *)

AnalysisOk == <<"{", "\"", "a", "n", "a", "l", "y", "s", "i", "s", "\"", ":", "{", "}", "}">>

CoverLetterOk ==
    <<"{", "\"", "c", "o", "v", "e", "r", "_", "l", "e", "t", "t", "e", "r", "\"", ":",
      "\"", "a", "\"", ",", "\"", "c", "o", "m", "p", "a", "n", "y", "\"", ":", "\"", "b",
      "\"", "}">>

\* the completions llm(prompt) may return
Completions == {
    AnalysisOk,
    Completion(<<>>, "json", AnalysisOk, <<>>),
    <<"{", " ">> \o AnalysisOk,
    CoverLetterOk,
    <<"{", "\"", "c", "o", "v", "e", "r", "_", "l", "e", "t", "t", "e", "r", "\"", ":",
      "\"", "a", "\"", "}">>,
    <<"{", "}">>,
    <<"\"", "a", "n", "a", "l", "y", "s", "i", "s", "\"">>,
    <<"[", "\"", "c", "o", "v", "e", "r", "_", "l", "e", "t", "t", "e", "r", "\"", ",",
      "\"", "c", "o", "m", "p", "a", "n", "y", "\"", "]">>,
    <<"n", "u", "l", "l">>,
    <<"s", "o", "r", "r", "y">>,
    <<>> }

Inputs == {"resume_text", "job_title", "job_description"}

\* lines 206-216, and no extractor run
Init ==
    /\ ready = {}
    /\ pc = "idle"
    /\ kind = "analysis"
    /\ attempt_number = 0
    /\ last_error = <<>>
    /\ slept = <<>>
    /\ call = "pending"
    /\ caught = <<>>
    /\ response = <<>>
    /\ ret = None
    /\ st_error = ""
    /\ analysis_results = None
    /\ cover_letter = EmptyStr
    /\ lead = <<>>
    /\ fence = "none"
    /\ payload = <<>>
    /\ trail = <<>>
    /\ extracted = Pending

\* lines 301-308, 318-325, 408-415: the user uploads a resume with text or fills a field
ProvideInput(x) ==
    /\ pc # "calling"
    /\ x \notin ready
    /\ ready' = ready \cup {x}
    /\ UNCHANGED <<pc, kind, attempt_number, last_error, slept, call, caught, response,
                   ret, st_error, analysis_results, cover_letter>>
    /\ UNCHANGED extractVars

\* the same lines: the user uploads a resume without text or empties a field
ClearInput(x) ==
    /\ pc # "calling"
    /\ x \in ready
    /\ ready' = ready \ {x}
    /\ UNCHANGED <<pc, kind, attempt_number, last_error, slept, call, caught, response,
                   ret, st_error, analysis_results, cover_letter>>
    /\ UNCHANGED extractVars

\* a click starts the request k; safe_llm_call has made no attempt yet
Click(k) ==
    /\ pc # "calling"
    /\ pc' = "calling"
    /\ kind' = k
    /\ attempt_number' = 0
    /\ last_error' = <<>>
    /\ slept' = <<>>
    /\ call' = "pending"
    /\ caught' = <<>>
    /\ response' = <<>>
    /\ ret' = None
    /\ st_error' = ""
    /\ UNCHANGED <<ready, analysis_results, cover_letter>>
    /\ UNCHANGED extractVars

\* lines 337-340: the "Analyze Resume" button is enabled and clicked
ClickAnalyze ==
    /\ {"resume_text", "job_title"} \subseteq ready
    /\ Click("analysis")

\* lines 417-420: the "Generate Cover Letter" button is enabled and clicked
ClickGenerate ==
    /\ Inputs \subseteq ready
    /\ Click("cover")

\* the rest of the click handler once safe_llm_call ended as c: the request function
\* returns and main() stores what it returned
Finish(c, resp, e, out) ==
    /\ pc' = "done"
    /\ call' = c
    /\ response' = resp
    /\ caught' = e
    /\ ret' = out.ret
    /\ st_error' = out.st_error
    /\ analysis_results' =
           IF kind = "analysis" THEN store(analysis_results, out.ret) ELSE analysis_results
    /\ cover_letter' =
           IF kind = "cover" THEN store(cover_letter, out.ret) ELSE cover_letter

\* line 60: llm(prompt) returns text; safe_llm_call returns it
AttemptSucceeds(text) ==
    /\ pc = "calling"
    /\ attempt_number' = attempt_number + 1
    /\ Finish("returned", text, <<>>, request(kind, "returned", text, <<>>))
    /\ UNCHANGED <<ready, kind, last_error, slept>>
    /\ UNCHANGED extractVars

\* lines 61-64: llm(prompt) raises e; tenacity waits and will call again
AttemptFails(e) ==
    /\ pc = "calling"
    /\ retry_on(e)
    /\ ~stop(attempt_number + 1)
    /\ attempt_number' = attempt_number + 1
    /\ last_error' = e
    /\ slept' = Append(slept, wait(attempt_number + 1))
    /\ UNCHANGED <<ready, pc, kind, call, caught, response, ret, st_error,
                   analysis_results, cover_letter>>
    /\ UNCHANGED extractVars

\* lines 61-64 with reraise=True: llm(prompt) raises e and tenacity gives up; e
\* reaches the except of the request function
AttemptExhausts(e) ==
    /\ pc = "calling"
    /\ ~retry_on(e) \/ stop(attempt_number + 1)
    /\ attempt_number' = attempt_number + 1
    /\ last_error' = e
    /\ Finish("raised", <<>>, e, request(kind, "raised", <<>>, e))
    /\ UNCHANGED <<ready, kind, slept>>
    /\ UNCHANGED extractVars

Next ==
    \/ \E x \in Inputs : ProvideInput(x)
    \/ \E x \in Inputs : ClearInput(x)
    \/ ClickAnalyze
    \/ ClickGenerate
    \/ \E text \in Completions : AttemptSucceeds(text)
    \/ \E e \in Errors : AttemptFails(e)
    \/ \E e \in Errors : AttemptExhausts(e)

Spec == Init /\ [][Next]_vars

---------------------------------------------------------------------------
(* The extractor alone, on every completion built from Prose, Fences and   *)
(* Payloads                                                                *)

InitExtract ==
    /\ ready = {}
    /\ pc = "idle"
    /\ kind = "analysis"
    /\ attempt_number = 0
    /\ last_error = <<>>
    /\ slept = <<>>
    /\ call = "pending"
    /\ caught = <<>>
    /\ ret = None
    /\ st_error = ""
    /\ analysis_results = None
    /\ cover_letter = EmptyStr
    /\ lead \in Prose
    /\ fence \in Fences
    /\ payload \in Payloads
    /\ trail \in Prose
    /\ response = Completion(lead, fence, payload, trail)
    /\ extracted = Pending

Extract ==
    /\ extracted.state = "pending"
    /\ extracted' = Outcome(response)
    /\ UNCHANGED <<lead, fence, payload, trail, response>>
    /\ UNCHANGED sessionVars

NextExtract == Extract

SpecExtract == InitExtract /\ [][NextExtract]_vars

---------------------------------------------------------------------------
(* Properties of the extractor, under SpecExtract                          *)

Clean == StripFences(response)

\* the payload is a well-formed JSON object
WellFormedObject == json_loads(payload).kind = "object"

\* some brace of the payload lies inside a string literal
BraceInString ==
    \E i \in 1..Len(payload) :
        /\ payload[i] \in {"{", "}"}
        /\ Cardinality({j \in 1..(i - 1) : payload[j] = "\""}) % 2 = 1

\* the extractor sliced the payload and returned its value
ReturnsPayload ==
    /\ extracted.state = "returned"
    /\ extracted.span = payload
    /\ extracted.value = json_loads(payload)

\* C1: a well-formed JSON object embedded in any leading and trailing prose and
\* fences, stray braces in the prose included, is what parse_json_response returns,
\* and the span it slices is that object.  (Objects with braces inside their
\* strings are C7's; they are left out here.)
C1_ReturnsEmbeddedObject ==
    (extracted.state # "pending" /\ WellFormedObject /\ ~BraceInString) => ReturnsPayload

\* C2: when the brace count from the first "{" never returns to zero,
\* parse_json_response raises.
C2_UnbalancedRaises ==
    (extracted.state # "pending" /\ start_idx(Clean) # 0 /\ end_idx(Clean) = 0)
        => extracted.state = "raised"

\* C7: a completion that is just a JSON object whose string values hold brace
\* characters is returned whole.
C7_BracesInStrings ==
    (/\ extracted.state # "pending"
     /\ lead = <<>> /\ trail = <<>> /\ fence = "none"
     /\ WellFormedObject /\ BraceInString)
        => ReturnsPayload

\* C8: when the fence-stripped text holds no "{", parse_json_response raises.
C8_NoBraceRaises ==
    (extracted.state # "pending" /\ find(Clean, "{") = 0) => extracted.state = "raised"

---------------------------------------------------------------------------
(* Properties of the session, under Spec                                   *)

C10_Waits ==
    /\ Len(slept) = (IF pc = "calling" \/ attempt_number = 0 THEN attempt_number
                     ELSE attempt_number - 1)
    /\ Len(slept) <= 2
    /\ \A n \in 1..Len(slept) :
           /\ slept[n] >= 4
           /\ slept[n] <= 10
           /\ slept[n] = (IF 2 ^ (n - 1) < 4 THEN 4
                          ELSE IF 2 ^ (n - 1) > 10 THEN 10 ELSE 2 ^ (n - 1))

\* the call gave up after three failures and two waits
C10_Witness == pc = "done" /\ call = "raised" /\ Len(slept) = 2

\* the parsed completion supports the key test and a mandatory key is missing
Rejected ==
    /\ call = "returned"
    /\ response # <<>>
    /\ IF kind = "analysis"
       THEN contains(KeyAnalysis, parse_json_response(response)) = "False"
       ELSE /\ contains(KeyCoverLetter, parse_json_response(response)) # "TypeError"
            /\ \/ contains(KeyCoverLetter, parse_json_response(response)) = "False"
               \/ contains(KeyCompany, parse_json_response(response)) = "False"

C5_TwoMessages ==
    (pc = "done" /\ call = "raised") =>
        /\ ret = None
        /\ st_error = (IF IsSubstring(RateLimit, lower(caught)) THEN MsgBusy
                       ELSE MsgUnavailable)

\* C5 amended: there are three messages: the busy advisory for a rate-limit
\* error, the model-issue message for another error that mentions an invalid
\* payload, the service-unavailable message for the rest; the request returns null.
C5_ThreeMessages ==
    (pc = "done" /\ call = "raised") =>
        /\ ret = None
        /\ IsSubstring(RateLimit, lower(caught)) => st_error = MsgBusy
        /\ (/\ ~IsSubstring(RateLimit, lower(caught))
            /\ IsSubstring(InvalidPayload, lower(caught))) => st_error = MsgModelIssue
        /\ (/\ ~IsSubstring(RateLimit, lower(caught))
            /\ ~IsSubstring(InvalidPayload, lower(caught))) => st_error = MsgUnavailable

\* an error written with capitals that mentions an invalid payload got the
\* model-issue message
C5_Witness ==
    /\ pc = "done"
    /\ call = "raised"
    /\ caught # lower(caught)
    /\ st_error = MsgModelIssue

\* C6: a parsed value is returned as the result only if it is an object that has
\* the mandatory keys of its request.
C6_TrustedHasKeys ==
    (pc = "done" /\ ret.via = "parsed") =>
        /\ ret.kind = "object"
        /\ kind = "analysis" => KeyAnalysis \in ret.members
        /\ kind = "cover" => {KeyCoverLetter, KeyCompany} \subseteq ret.members

\* C9 as stated: when a request finishes, the slot of its kind holds what the
\* request returned or is empty.
C9_SlotReplaced ==
    [][(pc = "calling" /\ pc' = "done") =>
          /\ kind = "analysis" =>
                 (analysis_results' = ret' \/ analysis_results' = None)
          /\ kind = "cover" =>
                 (cover_letter' = ret' \/ cover_letter' = EmptyStr)]_vars

\* C9 amended: when a request finishes with a result, the slot of its kind holds
\* that result; when it finishes with null the slot keeps what it held; the other
\* slot is untouched.
C9_SlotReplacedOnResult ==
    [][(pc = "calling" /\ pc' = "done") =>
          /\ kind = "analysis" =>
                 /\ analysis_results' =
                        (IF ret'.via # "none" THEN ret' ELSE analysis_results)
                 /\ cover_letter' = cover_letter
          /\ kind = "cover" =>
                 /\ cover_letter' = (IF ret'.via # "none" THEN ret' ELSE cover_letter)
                 /\ analysis_results' = analysis_results]_vars

\* an analysis request ended with null while the slot still shows an earlier result
C9_Witness ==
    /\ pc = "done"
    /\ kind = "analysis"
    /\ ret = None
    /\ analysis_results.via # "none"

===========================================================================
